---- MODULE Spec2Model ----
(***************************************************************************)
(* Bug tracker (Express + Mongoose, app.js): user store, bug store,       *)
(* cookie sessions and the route handlers.  A handler that awaits the     *)
(* store between a read and a write is split at that await, so requests   *)
(* of different clients interleave exactly where the code lets them.      *)
(*                                                                         *)
(* Conventions                                                             *)
(*   - an _id is the position of the document in its collection;          *)
(*     createdAt order is therefore _id order;                             *)
(*   - a title (and the search text q) is a sequence of characters, the   *)
(*     empty sequence standing for both undefined and "" (the handlers    *)
(*     treat the two alike: `required` rejects both, `if (title)` skips   *)
(*     both);                                                              *)
(*   - every other request field is a string, Undefined when missing.     *)
(***************************************************************************)
EXTENDS Integers, Sequences, FiniteSets, TLC

\* ------------------------------------------------------------------ bounds
\* Documents are never deleted, so each specification caps its collections.
MaxUsers == 2
MaxBugs == 1
ListBugs == 2
RaceBugs == 1

\* --------------------------------------------------------------- constants
limit == 10

Clients == {"c1", "c2"}

Undefined == "<undefined>"
NoUser == 0
BadId == 0

\* A fresh session: req.session.userId / userName / userRole are undefined.
NoIdentity == [userId |-> NoUser, userName |-> Undefined, userRole |-> Undefined]

SeverityEnum == {"Low", "Medium", "High"}
StatusEnum == {"Open", "In Progress", "Closed"}

\* JavaScript truthiness of a string field of req.body / req.query.
Truthy(s) == s # Undefined /\ s # ""

\* bcrypt.hash / bcrypt.compare: a one-way tag of the plaintext.
Hash(password) == <<"bcrypt", password>>
Compare(password, passwordHash) == Hash(password) = passwordHash

VARIABLES
  users,      \* User collection: Seq of [name, email, passwordHash, role]
  bugs,       \* Bug collection: Seq of [title, description, severity, status, reporter]
  session,    \* session[c]: the identity stored in client c's session
  inflight,   \* inflight[c]: the handler of c suspended between two awaits
  last,       \* the response (or suspension) produced by the latest step
  createdBy,  \* history: createdBy[i] = session userId of the POST /bugs that made bug i
  supplied,   \* history: per bug and field, value given by the last saved request that gave the field
  changed     \* history: per bug and field, value given by the last saved request that gave a value other than the one it read

vars == <<users, bugs, session, inflight, last, createdBy, supplied, changed>>

Idle == [pc |-> "idle"]

NoSkip == [nan |-> FALSE, n |-> 0]

\* What a step answers: the redirect target or view in `to`, the bugs
\* rendered in `shown`, the session the request carried in `sess`, and the
\* :id of the request path in `id` (BadId where the route has none).
Response(c, op, outcome, to, sess, shown, skip) ==
  [client |-> c, op |-> op, id |-> BadId, outcome |-> outcome, to |-> to,
   sess |-> sess, shown |-> shown, skip |-> skip]

About(id, response) == [response EXCEPT !.id = id]

Init ==
  /\ users = <<>>
  /\ bugs = <<>>
  /\ session = [c \in Clients |-> NoIdentity]
  /\ inflight = [c \in Clients |-> Idle]
  /\ last = Response("c1", "start", "none", "/", NoIdentity, <<>>, NoSkip)
  /\ createdBy = <<>>
  /\ supplied = <<>>
  /\ changed = <<>>

\* ------------------------------------------------------------ user store
FindUserByEmail(email) == {i \in 1..Len(users) : users[i].email = email}

\* Requests that have passed the existence lookup and not yet saved.
PendingSaves == Cardinality({c \in Clients : inflight[c].pc \in {"reg_save", "seed_save"}})

\* The caps, as conditions on the state a step leads to.
UsersWithin(n) == Len(users') + PendingSaves' <= n
BugsWithin(n) == Len(bugs') <= n

\* user.save(): the unique index on email rejects a second document with
\* the same email (E11000), whatever the handler looked up earlier.
UniqueIndexAccepts(user) == FindUserByEmail(user.email) = {}

\* role: role === 'admin' ? 'admin' : 'reporter'
RoleOf(role) == IF role = "admin" THEN "admin" ELSE "reporter"

\* Variant: the handler saves without looking the email up first.
RegisterWithoutLookup(c, name, email, password, role) ==
  /\ inflight[c] = Idle
  /\ UNCHANGED <<users, bugs, session, createdBy, supplied, changed>>
  /\ IF ~Truthy(name) \/ ~Truthy(email) \/ ~Truthy(password)
       THEN /\ last' = Response(c, "register", "ValidationError", "/register", session[c], <<>>, NoSkip)
            /\ UNCHANGED inflight
       ELSE /\ inflight' = [inflight EXCEPT ![c] =
                 [pc |-> "reg_save",
                  user |-> [name |-> name, email |-> email,
                            passwordHash |-> Hash(password), role |-> RoleOf(role)]]]
            /\ last' = Response(c, "register", "pending", "", session[c], <<>>, NoSkip)

\* POST /register up to `await User.findOne({ email })` and bcrypt.hash.
RegisterLookup(c, name, email, password, role) ==
  /\ inflight[c] = Idle
  /\ UNCHANGED <<users, bugs, session, createdBy, supplied, changed>>
  /\ IF ~Truthy(name) \/ ~Truthy(email) \/ ~Truthy(password)
       THEN /\ last' = Response(c, "register", "ValidationError", "/register", session[c], <<>>, NoSkip)
            /\ UNCHANGED inflight
       ELSE IF FindUserByEmail(email) # {}
         THEN /\ last' = Response(c, "register", "DuplicateEmail", "/register", session[c], <<>>, NoSkip)
              /\ UNCHANGED inflight
         ELSE /\ inflight' = [inflight EXCEPT ![c] =
                   [pc |-> "reg_save",
                    user |-> [name |-> name, email |-> email,
                              passwordHash |-> Hash(password), role |-> RoleOf(role)]]]
              /\ last' = Response(c, "register", "pending", "", session[c], <<>>, NoSkip)

\* POST /register from `await user.save()` to the redirect (or the catch).
RegisterSave(c) ==
  /\ inflight[c].pc = "reg_save"
  /\ inflight' = [inflight EXCEPT ![c] = Idle]
  /\ UNCHANGED <<bugs, session, createdBy, supplied, changed>>
  /\ IF UniqueIndexAccepts(inflight[c].user)
       THEN /\ users' = Append(users, inflight[c].user)
            /\ last' = Response(c, "register", "Registered", "/login", session[c], <<>>, NoSkip)
       ELSE /\ UNCHANGED users
            /\ last' = Response(c, "register", "RegistrationFailed", "/register", session[c], <<>>, NoSkip)

AdminEmail == "admin@example.com"

\* GET /setup/create-admin up to the lookup and bcrypt.hash.
SeedLookup(c) ==
  /\ inflight[c] = Idle
  /\ UNCHANGED <<users, bugs, session, createdBy, supplied, changed>>
  /\ IF FindUserByEmail(AdminEmail) # {}
       THEN /\ last' = Response(c, "seed", "AdminExists", "", session[c], <<>>, NoSkip)
            /\ UNCHANGED inflight
       ELSE /\ inflight' = [inflight EXCEPT ![c] =
                 [pc |-> "seed_save",
                  user |-> [name |-> "Admin", email |-> AdminEmail,
                            passwordHash |-> Hash("adminpass"), role |-> "admin"]]]
            /\ last' = Response(c, "seed", "pending", "", session[c], <<>>, NoSkip)

\* GET /setup/create-admin from `await admin.save()` on.
SeedSave(c) ==
  /\ inflight[c].pc = "seed_save"
  /\ inflight' = [inflight EXCEPT ![c] = Idle]
  /\ UNCHANGED <<bugs, session, createdBy, supplied, changed>>
  /\ IF UniqueIndexAccepts(inflight[c].user)
       THEN /\ users' = Append(users, inflight[c].user)
            /\ last' = Response(c, "seed", "AdminCreated", "", session[c], <<>>, NoSkip)
       ELSE /\ UNCHANGED users
            /\ last' = Response(c, "seed", "SeedFailed", "", session[c], <<>>, NoSkip)

\* ---------------------------------------------------------------- sessions
\* What POST /login stores in the session for user i.
IdentityOf(i) == [userId |-> i, userName |-> users[i].name, userRole |-> users[i].role]

\* Variant: a failed login also drops the identity the session held.
LoginDropsSession(c, email, password) ==
  /\ inflight[c] = Idle
  /\ UNCHANGED <<users, bugs, inflight, createdBy, supplied, changed>>
  /\ LET found == FindUserByEmail(email) IN
     IF found = {}
       THEN /\ session' = [session EXCEPT ![c] = NoIdentity]
            /\ last' = Response(c, "login", "UserNotFound", "/register", session[c], <<>>, NoSkip)
       ELSE LET i == CHOOSE j \in found : TRUE IN
            IF password = Undefined
              THEN /\ UNCHANGED session
                   /\ last' = Response(c, "login", "LoginFailed", "/login", session[c], <<>>, NoSkip)
              ELSE IF ~Compare(password, users[i].passwordHash)
                THEN /\ session' = [session EXCEPT ![c] = NoIdentity]
                     /\ last' = Response(c, "login", "InvalidCredentials", "/login", session[c], <<>>, NoSkip)
                ELSE /\ session' = [session EXCEPT ![c] = IdentityOf(i)]
                     /\ last' = Response(c, "login", "LoggedIn", "/dashboard", session[c], <<>>, NoSkip)

\* POST /login.  bcrypt.compare rejects an undefined password (catch branch).
Login(c, email, password) ==
  /\ inflight[c] = Idle
  /\ UNCHANGED <<users, bugs, inflight, createdBy, supplied, changed>>
  /\ LET found == FindUserByEmail(email) IN
     IF found = {}
       THEN /\ UNCHANGED session
            /\ last' = Response(c, "login", "UserNotFound", "/register", session[c], <<>>, NoSkip)
       ELSE LET i == CHOOSE j \in found : TRUE IN
            IF password = Undefined
              THEN /\ UNCHANGED session
                   /\ last' = Response(c, "login", "LoginFailed", "/login", session[c], <<>>, NoSkip)
              ELSE IF ~Compare(password, users[i].passwordHash)
                THEN /\ UNCHANGED session
                     /\ last' = Response(c, "login", "InvalidCredentials", "/login", session[c], <<>>, NoSkip)
                ELSE /\ session' = [session EXCEPT ![c] = IdentityOf(i)]
                     /\ last' = Response(c, "login", "LoggedIn", "/dashboard", session[c], <<>>, NoSkip)

\* POST /logout: req.session.destroy.  A handler of the same browser that is
\* suspended keeps the session object it was started with.
Logout(c) ==
  /\ session' = [session EXCEPT ![c] = NoIdentity]
  /\ last' = Response(c, "logout", "LoggedOut", "/", session[c], <<>>, NoSkip)
  /\ UNCHANGED <<users, bugs, inflight, createdBy, supplied, changed>>

\* cookie: { maxAge: 1 day }: the stored session lapses; the next request
\* of the client starts from a fresh one.
SessionExpire(c) ==
  /\ session[c] # NoIdentity
  /\ session' = [session EXCEPT ![c] = NoIdentity]
  /\ last' = Response(c, "expire", "Expired", "", session[c], <<>>, NoSkip)
  /\ UNCHANGED <<users, bugs, inflight, createdBy, supplied, changed>>

\* ------------------------------------------------------------- bug store
\* Variant: the middleware lets every request through.
requireLoginSkipped(sess) == TRUE

\* requireLogin: next() only when req.session.userId is set.
requireLogin(sess) == sess.userId # NoUser

IsAdmin(sess) == sess.userRole = "admin"

\* Bug.findById(id): the set holding the document, or empty (null).
FindById(id) == IF id \in 1..Len(bugs) THEN {id} ELSE {}

\* populate('reporter', 'name email'): the referenced user, or empty (null).
Populate(reporter) == IF reporter \in 1..Len(users) THEN {reporter} ELSE {}

\* Variant: the schema declares severity and status as plain strings.
ValidBugNoEnum(doc) ==
  /\ Len(doc.title) > 0
  /\ doc.reporter # NoUser

\* bugSchema validation, run by save(): title required (a non-empty string),
\* severity and status within their enums, reporter required.
ValidBug(doc) ==
  /\ Len(doc.title) > 0
  /\ doc.severity \in SeverityEnum
  /\ doc.status \in StatusEnum
  /\ doc.reporter # NoUser

\* Variant: the document is built from the whole body, reporter included.
NewBugFromBody(body, sess) ==
  [title |-> body.title,
   description |-> body.description,
   severity |-> IF body.severity = Undefined THEN "Low" ELSE body.severity,
   status |-> "Open",
   reporter |-> IF body.reporter # NoUser THEN body.reporter ELSE sess.userId]

\* new Bug({ title, description, severity, reporter: req.session.userId }):
\* schema defaults fill the paths that are undefined.
NewBug(body, sess) ==
  [title |-> body.title,
   description |-> body.description,
   severity |-> IF body.severity = Undefined THEN "Low" ELSE body.severity,
   status |-> "Open",
   reporter |-> sess.userId]

FieldsOf(doc) ==
  [title |-> doc.title, description |-> doc.description,
   severity |-> doc.severity, status |-> doc.status]

\* GET /bugs/new
NewForm(c) ==
  /\ inflight[c] = Idle
  /\ UNCHANGED <<users, bugs, session, inflight, createdBy, supplied, changed>>
  /\ IF ~requireLogin(session[c])
       THEN last' = Response(c, "new", "Unauthenticated", "/login", session[c], <<>>, NoSkip)
       ELSE last' = Response(c, "new", "Rendered", "bugs/new", session[c], <<>>, NoSkip)

\* POST /bugs
CreateBug(c, body) ==
  /\ inflight[c] = Idle
  /\ UNCHANGED <<users, session, inflight>>
  /\ IF ~requireLogin(session[c])
       THEN /\ last' = Response(c, "create", "Unauthenticated", "/login", session[c], <<>>, NoSkip)
            /\ UNCHANGED <<bugs, createdBy, supplied, changed>>
       ELSE LET bug == NewBug(body, session[c]) IN
            IF ~ValidBug(bug)
              THEN /\ last' = Response(c, "create", "CreateFailed", "/bugs/new", session[c], <<>>, NoSkip)
                   /\ UNCHANGED <<bugs, createdBy, supplied, changed>>
              ELSE /\ bugs' = Append(bugs, bug)
                   /\ createdBy' = Append(createdBy, session[c].userId)
                   /\ supplied' = Append(supplied, FieldsOf(bug))
                   /\ changed' = Append(changed, FieldsOf(bug))
                   /\ last' = Response(c, "create", "Created", "/dashboard", session[c], <<>>, NoSkip)

\* Variant: the view test forgets the admin override.
ViewAllowedOwnerOnly(sess, bug) ==
  \E u \in Populate(bug.reporter) : u = sess.userId

\* GET /bugs/:id — the permission test reads the populated reporter's _id.
ViewAllowed(sess, bug) ==
  IsAdmin(sess) \/ \E u \in Populate(bug.reporter) : u = sess.userId

ViewBug(c, id) ==
  /\ inflight[c] = Idle
  /\ UNCHANGED <<users, bugs, session, inflight, createdBy, supplied, changed>>
  /\ IF ~requireLogin(session[c])
       THEN last' = About(id, Response(c, "view", "Unauthenticated", "/login", session[c], <<>>, NoSkip))
       ELSE IF id = BadId
         THEN last' = About(id, Response(c, "view", "Error", "/dashboard", session[c], <<>>, NoSkip))
         ELSE IF FindById(id) = {}
           THEN last' = About(id, Response(c, "view", "NotFound", "/dashboard", session[c], <<>>, NoSkip))
           ELSE IF ~IsAdmin(session[c]) /\ Populate(bugs[id].reporter) = {}
             THEN last' = About(id, Response(c, "view", "Error", "/dashboard", session[c], <<>>, NoSkip))
             ELSE IF ~ViewAllowed(session[c], bugs[id])
               THEN last' = About(id, Response(c, "view", "AccessDenied", "/dashboard", session[c], <<>>, NoSkip))
               ELSE last' = About(id, Response(c, "view", "Rendered", "bugs/show", session[c], <<id>>, NoSkip))

\* GET /bugs/:id/edit
EditAllowed(sess, bug) == IsAdmin(sess) \/ bug.reporter = sess.userId

EditForm(c, id) ==
  /\ inflight[c] = Idle
  /\ UNCHANGED <<users, bugs, session, inflight, createdBy, supplied, changed>>
  /\ IF ~requireLogin(session[c])
       THEN last' = About(id, Response(c, "edit", "Unauthenticated", "/login", session[c], <<>>, NoSkip))
       ELSE IF id = BadId
         THEN last' = About(id, Response(c, "edit", "Error", "/dashboard", session[c], <<>>, NoSkip))
         ELSE IF FindById(id) = {}
           THEN last' = About(id, Response(c, "edit", "NotFound", "/dashboard", session[c], <<>>, NoSkip))
           ELSE IF ~EditAllowed(session[c], bugs[id])
             THEN last' = About(id, Response(c, "edit", "AccessDenied", "/dashboard", session[c], <<>>, NoSkip))
             ELSE last' = About(id, Response(c, "edit", "Rendered", "bugs/edit", session[c], <<id>>, NoSkip))

\* Variant: the update handler has no permission test.
UpdateAllowedAnyone(sess, bug) == TRUE

\* PUT /bugs/:id
UpdateAllowed(sess, bug) == IsAdmin(sess) \/ bug.reporter = sess.userId

\* if (title) bug.title = title; ... : the document after the assignments.
Assign(doc, body) ==
  [doc EXCEPT !.title = IF Len(body.title) > 0 THEN body.title ELSE @,
              !.description = IF Truthy(body.description) THEN body.description ELSE @,
              !.severity = IF Truthy(body.severity) THEN body.severity ELSE @,
              !.status = IF Truthy(body.status) THEN body.status ELSE @]

\* Mongoose marks a path modified only when the assigned value differs from
\* the value the document was loaded with.
ModifiedPaths(read, doc) ==
  {f \in {"title", "description", "severity", "status"} :
     CASE f = "title" -> doc.title # read.title
       [] f = "description" -> doc.description # read.description
       [] f = "severity" -> doc.severity # read.severity
       [] f = "status" -> doc.status # read.status}

\* Variant: save() writes the whole loaded document back.
PersistWhole(stored, doc, modified) ==
  [stored EXCEPT !.title = doc.title, !.description = doc.description,
                 !.severity = doc.severity, !.status = doc.status]

\* save() of a loaded document: $set of the modified paths only.
Persist(stored, doc, modified) ==
  [stored EXCEPT !.title = IF "title" \in modified THEN doc.title ELSE @,
                 !.description = IF "description" \in modified THEN doc.description ELSE @,
                 !.severity = IF "severity" \in modified THEN doc.severity ELSE @,
                 !.status = IF "status" \in modified THEN doc.status ELSE @]

\* PUT /bugs/:id up to `await Bug.findById`, the permission test and the
\* field assignments on the loaded document.
PutFind(c, id, body) ==
  /\ inflight[c] = Idle
  /\ UNCHANGED <<users, bugs, session, createdBy, supplied, changed>>
  /\ IF ~requireLogin(session[c])
       THEN /\ last' = About(id, Response(c, "update", "Unauthenticated", "/login", session[c], <<>>, NoSkip))
            /\ UNCHANGED inflight
       ELSE IF id = BadId
         THEN /\ last' = About(id, Response(c, "update", "UpdateFailed", "/dashboard", session[c], <<>>, NoSkip))
              /\ UNCHANGED inflight
         ELSE IF FindById(id) = {}
           THEN /\ last' = About(id, Response(c, "update", "NotFound", "/dashboard", session[c], <<>>, NoSkip))
                /\ UNCHANGED inflight
           ELSE IF ~UpdateAllowed(session[c], bugs[id])
             THEN /\ last' = About(id, Response(c, "update", "AccessDenied", "/dashboard", session[c], <<>>, NoSkip))
                  /\ UNCHANGED inflight
             ELSE /\ inflight' = [inflight EXCEPT ![c] =
                       [pc |-> "put_save", id |-> id, sess |-> session[c], body |-> body,
                        read |-> bugs[id], doc |-> Assign(bugs[id], body)]]
                  /\ last' = About(id, Response(c, "update", "pending", "", session[c], <<>>, NoSkip))

\* The history of values given to each field by saved requests.
Given(hist, body, cond) ==
  [hist EXCEPT !.title = IF cond["title"] THEN body.title ELSE @,
               !.description = IF cond["description"] THEN body.description ELSE @,
               !.severity = IF cond["severity"] THEN body.severity ELSE @,
               !.status = IF cond["status"] THEN body.status ELSE @]

\* PUT /bugs/:id from `await bug.save()` to the redirect (or the catch).
PutSave(c) ==
  /\ inflight[c].pc = "put_save"
  /\ inflight' = [inflight EXCEPT ![c] = Idle]
  /\ UNCHANGED <<users, session, createdBy>>
  /\ LET r == inflight[c] IN
     IF ~ValidBug(r.doc)
       THEN /\ last' = About(r.id, Response(c, "update", "UpdateFailed", "/dashboard", r.sess, <<>>, NoSkip))
            /\ UNCHANGED <<bugs, supplied, changed>>
       ELSE /\ bugs' = [bugs EXCEPT ![r.id] = Persist(@, r.doc, ModifiedPaths(r.read, r.doc))]
            /\ supplied' = [supplied EXCEPT ![r.id] = Given(@, r.body,
                 [title |-> Len(r.body.title) > 0,
                  description |-> Truthy(r.body.description),
                  severity |-> Truthy(r.body.severity),
                  status |-> Truthy(r.body.status)])]
            /\ changed' = [changed EXCEPT ![r.id] = Given(@, r.body,
                 [title |-> Len(r.body.title) > 0 /\ r.body.title # r.read.title,
                  description |-> Truthy(r.body.description) /\ r.body.description # r.read.description,
                  severity |-> Truthy(r.body.severity) /\ r.body.severity # r.read.severity,
                  status |-> Truthy(r.body.status) /\ r.body.status # r.read.status])]
            /\ last' = About(r.id, Response(c, "update", "Updated", "/bugs/:id", r.sess, <<>>, NoSkip))

\* -------------------------------------------------------------- dashboard
\* A query-string field as the parser hands it over: missing, a string, or
\* an object such as status[$ne]=Closed (kind "object", v the operand of $ne).
NoParam == [kind |-> "undefined", v |-> ""]
StrParam(s) == [kind |-> "string", v |-> s]
NeParam(s) == [kind |-> "object", v |-> s]

\* The same for q, whose text is a sequence of characters.
NoText == [kind |-> "undefined", v |-> <<>>]
Text(t) == [kind |-> "string", v |-> t]
ObjText == [kind |-> "object", v |-> <<>>]

ParamTruthy(p) == p.kind = "object" \/ (p.kind = "string" /\ p.v # "")
TextTruthy(p) == p.kind = "object" \/ (p.kind = "string" /\ Len(p.v) > 0)

\* $options: 'i'
Fold(ch) == CASE ch = "A" -> "a" [] ch = "B" -> "b" [] OTHER -> ch

\* { $regex: q, $options: 'i' } for a pattern of literal characters and ".".
RegexMatch(pattern, title) ==
  \E o \in 0..(Len(title) - Len(pattern)) :
    \A k \in 1..Len(pattern) :
      pattern[k] = "." \/ Fold(pattern[k]) = Fold(title[o + k])

\* Number(page) for the page strings of the model; anything else is NaN.
ToNumber(s) ==
  CASE s = "" -> [nan |-> FALSE, n |-> 0]
    [] s = "0" -> [nan |-> FALSE, n |-> 0]
    [] s = "1" -> [nan |-> FALSE, n |-> 1]
    [] s = "2" -> [nan |-> FALSE, n |-> 2]
    [] s = "-5" -> [nan |-> FALSE, n |-> -5]
    [] OTHER -> [nan |-> TRUE, n |-> 0]

\* const { page = 1 } = req.query; ... .skip((page-1)*limit)
SkipOf(page) ==
  LET p == IF page = Undefined THEN [nan |-> FALSE, n |-> 1] ELSE ToNumber(page)
  IN  [nan |-> p.nan, n |-> IF p.nan THEN 0 ELSE (p.n - 1) * limit]

\* Variant: a status filter replaces the filter object built so far.
BuildFilterReplaced(sess, query) ==
  [reporter |-> IF sess.userRole # "admin" /\ ~ParamTruthy(query.status)
                  THEN sess.userId ELSE NoUser,
   status |-> IF ParamTruthy(query.status) THEN query.status ELSE NoParam,
   severity |-> IF ParamTruthy(query.severity) THEN query.severity ELSE NoParam,
   title |-> IF TextTruthy(query.q) THEN query.q ELSE NoText]

\* const filter = {}; reporter scoping for non-admins; then the optional keys.
\* A key the handler does not set is NoUser / NoParam / NoText.
BuildFilter(sess, query) ==
  [reporter |-> IF sess.userRole # "admin" THEN sess.userId ELSE NoUser,
   status |-> IF ParamTruthy(query.status) THEN query.status ELSE NoParam,
   severity |-> IF ParamTruthy(query.severity) THEN query.severity ELSE NoParam,
   title |-> IF TextTruthy(query.q) THEN query.q ELSE NoText]

MatchParam(value, p) ==
  CASE p.kind = "undefined" -> TRUE
    [] p.kind = "string" -> value = p.v
    [] p.kind = "object" -> value # p.v

\* Bug.find(filter): the documents every key of the filter accepts.
Matches(bug, filter) ==
  /\ filter.reporter = NoUser \/ bug.reporter = filter.reporter
  /\ MatchParam(bug.status, filter.status)
  /\ MatchParam(bug.severity, filter.severity)
  /\ filter.title.kind = "undefined" \/ RegexMatch(filter.title.v, bug.title)

\* .sort({ createdAt: -1 }): matching ids, newest first, among bugs 1..n.
RECURSIVE Newest(_, _)
Newest(filter, n) ==
  IF n = 0 THEN <<>>
  ELSE IF Matches(bugs[n], filter) THEN <<n>> \o Newest(filter, n - 1)
  ELSE Newest(filter, n - 1)

\* .skip(k).limit(limit)
Page(found, k) ==
  IF k >= Len(found) THEN <<>>
  ELSE SubSeq(found, k + 1, IF k + limit < Len(found) THEN k + limit ELSE Len(found))

\* GET /dashboard.  A $regex operand that is an object, and a negative skip,
\* make the query reject (catch branch).  A NaN skip is rejected by some
\* versions of the query layer and dropped (no skip) by others.
Dashboard(c, query) ==
  /\ inflight[c] = Idle
  /\ UNCHANGED <<users, bugs, session, inflight, createdBy, supplied, changed>>
  /\ IF ~requireLogin(session[c])
       THEN last' = Response(c, "dashboard", "Unauthenticated", "/login", session[c], <<>>, NoSkip)
       ELSE LET filter == BuildFilter(session[c], query)
                skip == SkipOf(query.page)
                found == Newest(filter, Len(bugs))
            IN  IF filter.title.kind = "object" \/ (~skip.nan /\ skip.n < 0)
                  THEN last' = Response(c, "dashboard", "DashboardError", "/", session[c], <<>>, skip)
                  ELSE IF skip.nan
                    THEN \/ last' = Response(c, "dashboard", "DashboardError", "/", session[c], <<>>, skip)
                         \/ last' = Response(c, "dashboard", "Rendered", "dashboard", session[c], Page(found, 0), skip)
                    ELSE last' = Response(c, "dashboard", "Rendered", "dashboard", session[c], Page(found, skip.n), skip)

\* -------------------------------------------------- input sets, SpecAuth
AuthNames == {"", "Ann"}
AuthEmails == {"", "a@x.com", AdminEmail}
AuthPasswords == {"", "pw1"}
AuthRoles == {Undefined, "admin", "root"}
LoginEmails == {"a@x.com", "b@x.com", AdminEmail}
LoginPasswords == {Undefined, "pw1", "pw2", "adminpass"}

NextAuth ==
  \E c \in Clients :
    \/ \E name \in AuthNames, email \in AuthEmails, password \in AuthPasswords, role \in AuthRoles :
         RegisterLookup(c, name, email, password, role) /\ UsersWithin(MaxUsers)
    \/ RegisterSave(c)
    \/ SeedLookup(c) /\ UsersWithin(MaxUsers)
    \/ SeedSave(c)
    \/ \E email \in LoginEmails, password \in LoginPasswords : Login(c, email, password)
    \/ Logout(c)
    \/ SessionExpire(c)

SpecAuth == Init /\ [][NextAuth]_vars

\* ------------------------------------------------------ claims, SpecAuth
\* C4: the user store never holds two records with the same email; a
\* POST /register whose email is already stored answers DuplicateEmail and
\* adds no record; and a register that loses the race between lookup and
\* save adds no record either.
C4_OneRecordPerEmail ==
  /\ [](\A i, j \in 1..Len(users) : users[i].email = users[j].email => i = j)
  /\ [][\A c \in {last'.client}, name \in AuthNames, email \in AuthEmails,
           password \in AuthPasswords, role \in AuthRoles :
            ( /\ last'.op = "register"
              /\ RegisterLookup(c, name, email, password, role)
              /\ Truthy(name) /\ Truthy(email) /\ Truthy(password)
              /\ \E i \in 1..Len(users) : users[i].email = email )
            => /\ last'.outcome = "DuplicateEmail"
               /\ last'.to = "/register"
               /\ users' = users
               /\ inflight' = inflight]_vars
  /\ [][\A c \in Clients :
            ( /\ RegisterSave(c)
              /\ \E i \in 1..Len(users) : users[i].email = inflight[c].user.email )
            => users' = users /\ last'.to = "/register"]_vars

\* A register request lost the race: it passed the lookup, and its save was
\* refused because the other request had stored the email meanwhile.
C4_Witness ==
  /\ last.op = "register"
  /\ last.outcome = "RegistrationFailed"
  /\ Len(users) >= 1

\* C7: a POST /login with an unknown email answers UserNotFound (redirect to
\* /register), one with a known email and a wrong password answers
\* InvalidCredentials (redirect to /login); both leave the session identity
\* as it was.
C7_FailedLoginKeepsSession ==
  [][\A c \in {last'.client}, email \in LoginEmails, password \in LoginPasswords :
        (last'.op = "login" /\ Login(c, email, password)) =>
          /\ (\A i \in 1..Len(users) : users[i].email # email)
               => /\ last'.outcome = "UserNotFound"
                  /\ last'.to = "/register"
                  /\ session' = session
          /\ ( /\ password # Undefined
               /\ \E i \in 1..Len(users) :
                    users[i].email = email /\ users[i].passwordHash # Hash(password) )
               => /\ last'.outcome = "InvalidCredentials"
                  /\ last'.to = "/login"
                  /\ session' = session]_vars

\* A wrong password was given from a browser that holds a logged-in user.
C7_Witness ==
  /\ last.op = "login"
  /\ last.outcome = "InvalidCredentials"
  /\ last.sess # NoIdentity
  /\ session[last.client] = last.sess

\* ------------------------------------------------------ input sets, Spec
Names == {"Ann"}
Emails == {"a@x.com", "b@x.com"}
Passwords == {"pw1"}

\* Two reporters, or a reporter and an admin.
Registrations ==
  {[email |-> "a@x.com", role |-> Undefined],
   [email |-> "b@x.com", role |-> Undefined],
   [email |-> "b@x.com", role |-> "admin"]}

Body(title, description, severity, status, reporter) ==
  [title |-> title, description |-> description, severity |-> severity,
   status |-> status, reporter |-> reporter]

\* POST /bugs bodies: valid with a forged reporter, a missing title, a bad
\* severity, an empty severity.
CreateBodies ==
  {Body(<<"a">>, Undefined, Undefined, Undefined, 1),
   Body(<<>>, Undefined, Undefined, Undefined, NoUser),
   Body(<<"a">>, Undefined, "Bogus", Undefined, NoUser),
   Body(<<"a">>, Undefined, "", Undefined, NoUser)}

\* PUT /bugs/:id bodies: valid values with a forged reporter, a bad
\* severity, a bad status.
UpdateBodies ==
  {Body(<<"b">>, "", "High", "Closed", 1),
   Body(<<>>, Undefined, "Bogus", "Closed", NoUser),
   Body(<<"b">>, "", "", "Bogus", NoUser)}

\* An existing bug, or none; a view is also asked with a malformed id.
Ids == 1..(MaxBugs + 1)

Queries == {[q |-> NoText, status |-> NeParam("Closed"), severity |-> NoParam, page |-> Undefined]}

Next ==
  \E c \in Clients :
    \/ \E name \in Names, reg \in Registrations, password \in Passwords :
         RegisterLookup(c, name, reg.email, password, reg.role) /\ UsersWithin(MaxUsers)
    \/ RegisterSave(c)
    \/ \E email \in Emails, password \in Passwords : Login(c, email, password)
    \/ Logout(c)
    \/ SessionExpire(c)
    \/ NewForm(c)
    \/ \E body \in CreateBodies : CreateBug(c, body) /\ BugsWithin(MaxBugs)
    \/ \E query \in Queries : Dashboard(c, query)
    \/ \E id \in Ids \cup {BadId} : ViewBug(c, id)
    \/ \E id \in Ids : EditForm(c, id)
    \/ \E id \in Ids, body \in UpdateBodies : PutFind(c, id, body)
    \/ PutSave(c)

Spec == Init /\ [][Next]_vars

\* ---------------------------------------------------------- claims, Spec
SessionOps == {"new", "create", "dashboard", "view", "edit", "update"}

\* C2: the title, description, severity or status of a stored bug changes
\* only in a step that completes a PUT /bugs/:id for that bug, issued by a
\* session that is admin or is the bug's reporter.
C2_OnlyAuthorizedUpdateMutates ==
  [][\A i \in 1..Len(bugs) :
        FieldsOf(bugs'[i]) # FieldsOf(bugs[i]) =>
          /\ last'.op = "update"
          /\ last'.outcome = "Updated"
          /\ last'.id = i
          /\ inflight[last'.client].pc = "put_save"
          /\ inflight'[last'.client] = Idle
          /\ (last'.sess.userRole = "admin" \/ last'.sess.userId = bugs[i].reporter)]_vars

\* A reporter's own update went through and changed the title.
C2_Witness ==
  /\ last.op = "update"
  /\ last.outcome = "Updated"
  /\ last.sess.userRole # "admin"
  /\ bugs[last.id].title = <<"b">>

\* C3: for a logged-in session and an existing bug, view, edit-form and
\* update are allowed exactly when the session is admin or is the bug's
\* reporter, and are otherwise denied with a redirect to the dashboard.
C3_SamePolicyForViewEditUpdate ==
  ( /\ last.op \in {"view", "edit", "update"}
    /\ last.id \in 1..Len(bugs)
    /\ last.sess.userId # NoUser )
  => IF last.sess.userRole = "admin" \/ bugs[last.id].reporter = last.sess.userId
       THEN last.outcome \in
              (CASE last.op = "view" -> {"Rendered"}
                 [] last.op = "edit" -> {"Rendered"}
                 [] last.op = "update" -> {"pending", "Updated", "UpdateFailed"})
       ELSE last.outcome = "AccessDenied" /\ last.to = "/dashboard" /\ last.shown = <<>>

\* A reporter asked to view a bug that another user reported.
C3_Witness ==
  /\ last.op = "view"
  /\ last.outcome = "AccessDenied"
  /\ last.sess.userId # NoUser
  /\ bugs[last.id].reporter # last.sess.userId

\* C5: every stored bug's reporter is the userId of the session that issued
\* the POST /bugs which created it, whatever the bodies of that request and
\* of later updates said.
C5_ReporterIsCreator ==
  /\ Len(createdBy) = Len(bugs)
  /\ \A i \in 1..Len(bugs) :
       bugs[i].reporter = createdBy[i] /\ createdBy[i] # NoUser

\* An admin who is not the reporter has updated the bug.
C5_Witness ==
  /\ last.op = "update"
  /\ last.outcome = "Updated"
  /\ last.sess.userRole = "admin"
  /\ bugs[last.id].reporter # last.sess.userId
  /\ bugs[last.id].reporter = createdBy[last.id]

\* C8: a session-requiring request carrying no identity answers
\* Unauthenticated with a redirect to /login, renders no bug, starts no
\* handler and leaves the bug store alone; and a session without identity
\* gets one only by a successful login of its own browser.
C8_NoSessionNoAccess ==
  /\ []( (last.op \in SessionOps /\ last.sess.userId = NoUser)
           => /\ last.outcome = "Unauthenticated"
              /\ last.to = "/login"
              /\ last.shown = <<>> )
  /\ [][ (last'.op \in SessionOps /\ last'.sess.userId = NoUser)
           => bugs' = bugs /\ inflight' = inflight ]_vars
  /\ [][ \A c \in Clients :
           (session[c].userId = NoUser /\ session'[c].userId # NoUser)
             => last'.op = "login" /\ last'.outcome = "LoggedIn" /\ last'.client = c ]_vars

\* An update was asked for, after bugs exist, by a browser with no identity.
C8_Witness ==
  /\ last.op = "update"
  /\ last.outcome = "Unauthenticated"
  /\ last.id \in 1..Len(bugs)
  /\ session[last.client] = NoIdentity

ListClients == {"c1"}

ListCreateBodies ==
  {Body(<<"a">>, Undefined, Undefined, Undefined, NoUser),
   Body(<<"A", "b">>, Undefined, "High", Undefined, NoUser)}

ListUpdateBodies == {Body(<<>>, Undefined, Undefined, "Closed", NoUser)}

Query(q, status, severity, page) ==
  [q |-> q, status |-> status, severity |-> severity, page |-> page]

\* Every page value without a filter, every filter value on the default
\* page, and two combinations.
ListQueries ==
  {Query(NoText, NoParam, NoParam, pg) : pg \in {Undefined, "", "0", "1", "2", "-5", "abc"}}
  \cup {Query(q, NoParam, NoParam, Undefined) : q \in {Text(<<"B">>), Text(<<".", "b">>), ObjText}}
  \cup {Query(NoText, st, NoParam, Undefined) :
          st \in {StrParam(""), StrParam("Open"), StrParam("Bogus"), NeParam("Open"), NeParam("Bogus")}}
  \cup {Query(NoText, NoParam, sv, Undefined) : sv \in {StrParam("High"), NeParam("Bogus")}}
  \cup {Query(Text(<<"a">>), NeParam("Closed"), StrParam("Low"), "1"),
        Query(Text(<<".">>), NeParam("Bogus"), NeParam("Bogus"), "abc")}

NextList ==
  \E c \in ListClients :
    \/ \E name \in Names, reg \in Registrations, password \in Passwords :
         RegisterLookup(c, name, reg.email, password, reg.role) /\ UsersWithin(MaxUsers)
    \/ RegisterSave(c)
    \/ \E email \in Emails, password \in Passwords : Login(c, email, password)
    \/ Logout(c)
    \/ \E body \in ListCreateBodies : CreateBug(c, body) /\ BugsWithin(ListBugs)
    \/ \E id \in BadId..ListBugs, body \in ListUpdateBodies : PutFind(c, id, body)
    \/ PutSave(c)
    \/ \E query \in ListQueries : Dashboard(c, query)

SpecList == Init /\ [][NextList]_vars

\* ------------------------------------------------------ claims, SpecList
\* C1: the list GET /dashboard renders for a non-admin session holds only
\* bugs whose reporter is that session's userId, whatever q, status,
\* severity and page were.
C1_DashboardScopedToReporter ==
  ( /\ last.op = "dashboard"
    /\ last.sess.userId # NoUser
    /\ last.sess.userRole # "admin" )
  => \A k \in 1..Len(last.shown) : bugs[last.shown[k]].reporter = last.sess.userId

\* A reporter got a non-empty list for a non-numeric page while the store
\* holds a bug of another reporter.
C1_Witness ==
  /\ last.op = "dashboard"
  /\ last.outcome = "Rendered"
  /\ last.sess.userRole # "admin"
  /\ last.skip.nan
  /\ Len(last.shown) >= 1
  /\ \E i \in 1..Len(bugs) : bugs[i].reporter # last.sess.userId

BadPages == {"0", "-5", "abc"}

\* C6: a page of 0, -5 or "abc" is treated as page 1: the query runs with
\* skip 0 and the first `limit` matching bugs are rendered, never an error.
C6_BadPageIsPageOne ==
  [][ \A c \in {last'.client}, query \in ListQueries :
        ( /\ last'.op = "dashboard"
          /\ session[c].userId # NoUser
          /\ query.page \in BadPages
          /\ query.q.kind # "object"
          /\ Dashboard(c, query) )
        => /\ last'.outcome = "Rendered"
           /\ last'.skip = [nan |-> FALSE, n |-> 0]
           /\ last'.shown = Page(Newest(BuildFilter(session[c], query), Len(bugs)), 0) ]_vars

\* -------------------------------------------------- input sets, SpecRace
\* Two browsers whose PUT /bugs/:id requests overlap.
RaceEmail == "a@x.com"

RaceCreateBodies == {Body(<<"a">>, Undefined, Undefined, Undefined, NoUser)}

\* Edit-form submissions, which carry every field: one changes the title
\* and gives back the status, one changes the status and gives back the
\* title, one changes the severity alone, one is rejected by the schema.
RaceUpdateBodies ==
  {Body(<<"b">>, Undefined, "", "Open", NoUser),
   Body(<<"a">>, Undefined, "", "Closed", NoUser),
   Body(<<>>, Undefined, "High", "", NoUser),
   Body(<<"b">>, Undefined, "Bogus", "Closed", NoUser)}

NextRace ==
  \E c \in Clients :
    \/ \E name \in Names, password \in Passwords :
         RegisterLookup(c, name, RaceEmail, password, Undefined) /\ UsersWithin(MaxUsers)
    \/ RegisterSave(c)
    \/ \E password \in Passwords : Login(c, RaceEmail, password)
    \/ \E body \in RaceCreateBodies : CreateBug(c, body) /\ BugsWithin(RaceBugs)
    \/ \E id \in 1..RaceBugs, body \in RaceUpdateBodies : PutFind(c, id, body)
    \/ PutSave(c)

SpecRace == Init /\ [][NextRace]_vars

\* ------------------------------------------------------ claims, SpecRace
\* C10 as claimed: each field of a stored bug holds the value given by the
\* last saved request among those that gave the field a value.
C10_LastSupplierWins ==
  \A i \in 1..Len(bugs) : FieldsOf(bugs[i]) = supplied[i]

\* C10 as amended: each field holds the value given by the last saved
\* request among those that gave it a value other than the one they had
\* read; a request that gives back the value it read does not write the
\* field, and a field no request changed is not reverted by a stale read.
C10_LastChangerWins ==
  \A i \in 1..Len(bugs) : FieldsOf(bugs[i]) = changed[i]

\* Two PUTs overlapped: the one that saved last gave the title it had read
\* ("a"), after the other had stored "b".
C10_Witness ==
  /\ last.op = "update"
  /\ last.outcome = "Updated"
  /\ Len(bugs) >= 1
  /\ bugs[1].title = <<"b">>
  /\ supplied[1].title = <<"a">>

====
